---- MODULE Spec2Model ----
(***************************************************************************)
(* Model of maintainer/gen_colorspaces.py, the generator of                *)
(* src/colorspace.rs.gen: for every entry of a table of colour spaces it   *)
(* derives the RGB -> XYZ matrix from the chromaticities of the three      *)
(* primaries and a white point, inverts it and prints a block of Rust      *)
(* declarations.                                                           *)
(*                                                                         *)
(* Numbers are exact rationals <<n, d>> in lowest terms with d > 0, so the *)
(* model states what the algorithm computes, not how a double rounds it.   *)
(* A Python exception ends the script: it is recorded in err and the run   *)
(* stops in pc = "aborted".  An unset local is the empty tuple None.       *)
(***************************************************************************)
EXTENDS Integers, Sequences, FiniteSets, TLC

VARIABLES
    table,        \* the sequence of mkRust calls at module level (lines 67-74)
    idx,          \* 1-based position of the mkRust call being executed
    pc,           \* position inside the current call, "done" or "aborted"
    err,          \* the uncaught exception, or "none"
    WhitePoints,  \* the module-level dict (lines 11-14)
    wp,           \* calc_RGB_to_XYZ's parameter wp (the white-point vector)
    xyz,          \* calc_RGB_to_XYZ's local xyz
    S,            \* calc_RGB_to_XYZ's local S
    M,            \* mkRust's local M
    Yr, Yg, Yb,   \* mkRust's locals Yr, Yg, Yb
    r2x, x2r,     \* mkRust's locals r2x, x2r (the nine numbers, row-major)
    out           \* what has been printed: one block per completed call

vars == <<table, idx, pc, err, WhitePoints, wp, xyz, S, M, Yr, Yg, Yb, r2x, x2r, out>>

locals == <<wp, xyz, S, M, Yr, Yg, Yb, r2x, x2r>>

(***************************************************************************)
(* Bounds of the model.                                                    *)
(***************************************************************************)
GridDen == 3      \* chromaticity coordinates are k / GridDen, k in 0..GridDen
MaxTable == 2     \* longest table of mkRust calls

None == <<>>

(***************************************************************************)
(* Exact rational arithmetic.                                              *)
(***************************************************************************)
Abs(n) == IF n < 0 THEN -n ELSE n

RECURSIVE GCD(_, _)
GCD(a, b) == IF b = 0 THEN a ELSE GCD(b, a % b)

Norm(n, d) ==
    LET g == GCD(Abs(n), Abs(d))
        s == IF d < 0 THEN -1 ELSE 1
    IN  <<(s * n) \div g, Abs(d) \div g>>

Zero == <<0, 1>>
One == <<1, 1>>
Rat(n, d) == Norm(n, d)

RAdd(p, q) ==
    LET g == GCD(p[2], q[2])
        l == (p[2] \div g) * q[2]
    IN  Norm(p[1] * (l \div p[2]) + q[1] * (l \div q[2]), l)

RNeg(p) == <<-p[1], p[2]>>

RSub(p, q) == RAdd(p, RNeg(q))

RMul(p, q) ==
    LET g1 == GCD(Abs(p[1]), q[2])
        g2 == GCD(Abs(q[1]), p[2])
    IN  Norm((p[1] \div g1) * (q[1] \div g2), (p[2] \div g2) * (q[2] \div g1))

\* p / q for q # 0; Python raises ZeroDivisionError for q = 0, which the
\* actions test before they divide.
RDiv(p, q) == RMul(p, IF q[1] < 0 THEN <<-q[2], -q[1]>> ELSE <<q[2], q[1]>>)

\* |p| < |q|
RAbsLess(p, q) == Abs(p[1]) * q[2] < Abs(q[1]) * p[2]

(***************************************************************************)
(* 3x3 matrices are triples of rows, vectors are triples.                  *)
(***************************************************************************)
MatVec(A, v) ==
    LET row(i) == RAdd(RAdd(RMul(A[i][1], v[1]), RMul(A[i][2], v[2])), RMul(A[i][3], v[3]))
    IN  <<row(1), row(2), row(3)>>

MatMul(A, B) ==
    LET e(i, j) == RAdd(RAdd(RMul(A[i][1], B[1][j]), RMul(A[i][2], B[2][j])), RMul(A[i][3], B[3][j]))
    IN  <<<<e(1, 1), e(1, 2), e(1, 3)>>,
          <<e(2, 1), e(2, 2), e(2, 3)>>,
          <<e(3, 1), e(3, 2), e(3, 3)>>>>

Identity == <<<<One, Zero, Zero>>, <<Zero, One, Zero>>, <<Zero, Zero, One>>>>

\* numpy.linalg.inv: LAPACK gesv on [A | I], elimination with partial
\* pivoting; a zero pivot is LinAlgError("Singular matrix"), here None.
Augment(A) ==
    <<<<A[1][1], A[1][2], A[1][3], One, Zero, Zero>>,
      <<A[2][1], A[2][2], A[2][3], Zero, One, Zero>>,
      <<A[3][1], A[3][2], A[3][3], Zero, Zero, One>>>>

PivotRow(A, k) ==
    CHOOSE p \in k..3 : \A r \in k..3 : ~RAbsLess(A[p][k], A[r][k])

RowDiv(r, c) ==
    <<RDiv(r[1], c), RDiv(r[2], c), RDiv(r[3], c), RDiv(r[4], c), RDiv(r[5], c), RDiv(r[6], c)>>

RowSubMul(r, f, q) ==
    <<RSub(r[1], RMul(f, q[1])), RSub(r[2], RMul(f, q[2])), RSub(r[3], RMul(f, q[3])),
      RSub(r[4], RMul(f, q[4])), RSub(r[5], RMul(f, q[5])), RSub(r[6], RMul(f, q[6]))>>

Eliminate(A, k) ==
    LET p == PivotRow(A, k)
        swapped(i) == IF i = k THEN A[p] ELSE IF i = p THEN A[k] ELSE A[i]
        rowk == RowDiv(A[p], A[p][k])
        reduced(i) == IF i = k THEN rowk ELSE RowSubMul(swapped(i), swapped(i)[k], rowk)
    IN  <<reduced(1), reduced(2), reduced(3)>>

ZeroPivot(A, k) == A[PivotRow(A, k)][k] = Zero

RECURSIVE GaussJordan(_, _)
GaussJordan(A, k) ==
    IF k > 3 THEN A
    ELSE IF ZeroPivot(A, k) THEN None
    ELSE GaussJordan(Eliminate(A, k), k + 1)

RightHalf(A) ==
    IF A = None THEN None
    ELSE <<<<A[1][4], A[1][5], A[1][6]>>,
           <<A[2][4], A[2][5], A[2][6]>>,
           <<A[3][4], A[3][5], A[3][6]>>>>

inv(A) == RightHalf(GaussJordan(Augment(A), 1))

\* numpy.ravel: the nine entries, row-major.
ravel(A) == <<A[1][1], A[1][2], A[1][3], A[2][1], A[2][2], A[2][3], A[3][1], A[3][2], A[3][3]>>

(***************************************************************************)
(* Lines 8-14: whitepoint and the WhitePoints dict.  The chromaticities of *)
(* the two illuminants are the source's (0.31272, 0.32903 and 0.3457,      *)
(* 0.3585) rounded to the nearest twentieth, which keeps the exact         *)
(* arithmetic in the machine's integer range.  The rounded D50 lies on the *)
(* line x = y, so a white point collinear with two primaries (a zero scale *)
(* factor, a singular M) is among the cases.                               *)
(***************************************************************************)
whitepoint(x, y) == <<RDiv(x, y), One, RDiv(RSub(RSub(One, x), y), y)>>

WhitePointsInit ==
    [n \in {"D65", "D50"} |->
        IF n = "D65" THEN whitepoint(Rat(6, 20), Rat(7, 20))
        ELSE whitepoint(Rat(7, 20), Rat(7, 20))]

(***************************************************************************)
(* Lines 16-29: calc_RGB_to_XYZ, statement by statement.                   *)
(***************************************************************************)
\* Faulty variant of PyDiv: a zero divisor yields 0 instead of raising.
PyDivZero(x, y) == IF y = Zero THEN Zero ELSE RDiv(x, y)
\* Python's float division: a zero divisor raises ZeroDivisionError (None).
PyDiv(x, y) == IF y = Zero THEN None ELSE RDiv(x, y)

\* lines 17, 20, 23 and 19, 22, 25
BigX(x, y) == PyDiv(x, y)
BigZ(x, y) == PyDiv(RSub(RSub(One, x), y), y)

\* Faulty variant of xyzMatrix: the primaries as rows.
xyzMatrixByRows(Xr, Xg, Xb, Zr, Zg, Zb) == <<<<Xr, One, Zr>>, <<Xg, One, Zg>>, <<Xb, One, Zb>>>>
\* line 26: the primaries are the columns of xyz
xyzMatrix(Xr, Xg, Xb, Zr, Zg, Zb) == <<<<Xr, Xg, Xb>>, <<One, One, One>>, <<Zr, Zg, Zb>>>>

\* lines 17-26 for one entry: None when a division raises
calc_xyz(e) ==
    LET Xr == BigX(e.xr, e.yr)
        Zr == BigZ(e.xr, e.yr)
        Xg == BigX(e.xg, e.yg)
        Zg == BigZ(e.xg, e.yg)
        Xb == BigX(e.xb, e.yb)
        Zb == BigZ(e.xb, e.yb)
    IN  IF None \in {Xr, Zr, Xg, Zg, Xb, Zb} THEN None
        ELSE xyzMatrix(Xr, Xg, Xb, Zr, Zg, Zb)

\* Faulty variant of calc_S: a singular xyz yields the zero solution
\* instead of raising.
calc_S_lstsq(m, w) == LET I == inv(m) IN IF I = None THEN <<Zero, Zero, Zero>> ELSE MatVec(I, w)
\* line 27: S = np.linalg.inv(xyz) * wp, a matrix product; None when inv raises
calc_S(m, w) == LET I == inv(m) IN IF I = None THEN None ELSE MatVec(I, w)

\* Faulty variant of multiply: S is not transposed, so row i is scaled
\* by S[i].
multiplyNoTranspose(m, s) ==
    <<<<RMul(m[1][1], s[1]), RMul(m[1][2], s[1]), RMul(m[1][3], s[1])>>,
      <<RMul(m[2][1], s[2]), RMul(m[2][2], s[2]), RMul(m[2][3], s[2])>>,
      <<RMul(m[3][1], s[3]), RMul(m[3][2], s[3]), RMul(m[3][3], s[3])>>>>
\* line 28: np.multiply(xyz, S.transpose()) broadcasts the row S over the
\* rows of xyz: column j is scaled by S[j]
multiply(m, s) ==
    <<<<RMul(m[1][1], s[1]), RMul(m[1][2], s[2]), RMul(m[1][3], s[3])>>,
      <<RMul(m[2][1], s[1]), RMul(m[2][2], s[2]), RMul(m[2][3], s[3])>>,
      <<RMul(m[3][1], s[1]), RMul(m[3][2], s[2]), RMul(m[3][3], s[3])>>>>

(***************************************************************************)
(* Lines 32-65: mkRust.                                                    *)
(***************************************************************************)
\* Faulty variant of Lookup: an unknown key falls back to D65.
LookupDefault(d, name) == IF name \in DOMAIN d THEN d[name] ELSE d["D65"]
\* line 33: WhitePoints[wp]; an unknown key raises KeyError (None)
Lookup(d, name) == IF name \in DOMAIN d THEN d[name] ELSE None

\* line 38
fmt_r2x(m) == ravel(m)

Transpose(A) == <<<<A[1][1], A[2][1], A[3][1]>>, <<A[1][2], A[2][2], A[3][2]>>, <<A[1][3], A[2][3], A[3][3]>>>>
\* Faulty variant of fmt_x2r: the inverse is flattened column-major.
fmt_x2r_transposed(m) == LET I == inv(m) IN IF I = None THEN None ELSE ravel(Transpose(I))
\* line 39: None when inv raises
fmt_x2r(m) == LET I == inv(m) IN IF I = None THEN None ELSE ravel(I)

\* lines 41-65: the block printed for entry e.  green() and blue() are
\* printed with yr and Yr, as lines 45-46 read.
Block(e, yr_, yg_, yb_, r2x_, x2r_) ==
    [name |-> e.name,
     red |-> <<e.xr, e.yr, yr_>>,
     green |-> <<e.xg, e.yr, yr_>>,
     blue |-> <<e.xb, e.yr, yr_>>,
     WhitePoint |-> e.wp,
     rgb_to_xyz_matrix |-> r2x_,
     xyz_to_rgb_matrix |-> x2r_,
     TransferFn |-> e.transfer]

(***************************************************************************)
(* The inputs: entries of the table.                                       *)
(***************************************************************************)
Coord == {Rat(k, GridDen) : k \in 0..GridDen}

WpNames == {"D65", "D50", "D55"}

\* every entry over the grid of chromaticities
GridEntries ==
    [name : {"DisplayP3"}, wp : WpNames,
     xr : Coord, yr : Coord, xg : Coord, yg : Coord, xb : Coord, yb : Coord,
     transfer : {"Srgb"}]

\* the entries the tables of a whole run are made of: proper primaries, a
\* red with y = 0, a green equal to the red, a blue with x + y > 1 that
\* lies on the line x = y with the proper green
RunReds == {<<Rat(GridDen - 1, GridDen), Rat(1, GridDen)>>, <<Rat(1, GridDen), Zero>>}
RunGreens == {<<Rat(1, GridDen), Rat(1, GridDen)>>, <<Rat(GridDen - 1, GridDen), Rat(1, GridDen)>>}
RunBlues == {<<Zero, Rat(GridDen - 1, GridDen)>>, <<Rat(GridDen - 1, GridDen), Rat(GridDen - 1, GridDen)>>}

RunEntries ==
    {[name |-> "DisplayP3", wp |-> w, xr |-> r[1], yr |-> r[2], xg |-> g[1], yg |-> g[2],
      xb |-> b[1], yb |-> b[2], transfer |-> "Srgb"] :
        w \in WpNames, r \in RunReds, g \in RunGreens, b \in RunBlues}

RECURSIVE SeqsUpTo(_, _)
SeqsUpTo(E, n) ==
    IF n = 0 THEN {<<>>}
    ELSE LET shorter == SeqsUpTo(E, n - 1)
         IN  shorter \cup {Append(t, e) : t \in shorter, e \in E}

Tables == SeqsUpTo(RunEntries, MaxTable) \ {<<>>}

(***************************************************************************)
(* The state machine.                                                      *)
(***************************************************************************)
InitRest ==
    /\ idx = 1
    /\ pc = "call"
    /\ err = "none"
    /\ WhitePoints = WhitePointsInit
    /\ wp = None /\ xyz = None /\ S = None /\ M = None
    /\ Yr = None /\ Yg = None /\ Yb = None
    /\ r2x = None /\ x2r = None
    /\ out = <<>>

\* a run of the script over a table of calls
Init == table \in Tables /\ InitRest

\* a single call with its arguments drawn from the whole grid
InitGrid == table \in {<<e>> : e \in GridEntries} /\ InitRest

cur == table[idx]

\* Faulty variant of raise: the exception is recorded, the entry skipped
\* and the run goes on with the next call.
raise_and_continue(kind) ==
    /\ err' = kind
    /\ idx' = idx + 1
    /\ pc' = IF idx < Len(table) THEN "call" ELSE "done"
    /\ wp' = None /\ xyz' = None /\ S' = None /\ M' = None
    /\ Yr' = None /\ Yg' = None /\ Yb' = None /\ r2x' = None /\ x2r' = None
    /\ UNCHANGED <<table, WhitePoints, out>>
\* an uncaught exception ends the script; the locals of the frames it
\* unwinds are left as the last completed step set them
raise(kind) ==
    /\ err' = kind
    /\ pc' = "aborted"
    /\ UNCHANGED <<table, idx, WhitePoints, locals, out>>

\* line 33, the argument WhitePoints[wp], then the call of calc_RGB_to_XYZ
mkRust_call ==
    /\ pc = "call"
    /\ LET w == Lookup(WhitePoints, cur.wp)
       IN  IF w = None THEN raise("KeyError")
           ELSE /\ wp' = w
                /\ pc' = "xyz"
                /\ UNCHANGED <<table, idx, err, WhitePoints, xyz, S, M, Yr, Yg, Yb, r2x, x2r, out>>

\* lines 17-26
calc_build ==
    /\ pc = "xyz"
    /\ LET m == calc_xyz(cur)
       IN  IF m = None THEN raise("ZeroDivisionError")
           ELSE /\ xyz' = m
                /\ pc' = "solve"
                /\ UNCHANGED <<table, idx, err, WhitePoints, wp, S, M, Yr, Yg, Yb, r2x, x2r, out>>

\* Faulty variant of calc_solve: the white-point matrix held by WhitePoints
\* is overwritten in place with S.
calc_solve_inplace ==
    /\ pc = "solve"
    /\ LET s == calc_S(xyz, wp)
       IN  IF s = None THEN raise("LinAlgError")
           ELSE /\ S' = s
                /\ M' = multiply(xyz, s)
                /\ WhitePoints' = [WhitePoints EXCEPT ![cur.wp] = s]
                /\ pc' = "fmt"
                /\ UNCHANGED <<table, idx, err, wp, xyz, Yr, Yg, Yb, r2x, x2r, out>>
\* lines 27-29 and the assignment of the result to M in line 33
calc_solve ==
    /\ pc = "solve"
    /\ LET s == calc_S(xyz, wp)
       IN  IF s = None THEN raise("LinAlgError")
           ELSE /\ S' = s
                /\ M' = multiply(xyz, s)
                /\ pc' = "fmt"
                /\ UNCHANGED <<table, idx, err, WhitePoints, wp, xyz, Yr, Yg, Yb, r2x, x2r, out>>

\* lines 34-39
mkRust_fmt ==
    /\ pc = "fmt"
    /\ LET x == fmt_x2r(M)
       IN  IF x = None THEN raise("LinAlgError")
           ELSE /\ Yr' = M[2][1]
                /\ Yg' = M[2][2]
                /\ Yb' = M[2][3]
                /\ r2x' = fmt_r2x(M)
                /\ x2r' = x
                /\ pc' = "print"
                /\ UNCHANGED <<table, idx, err, WhitePoints, wp, xyz, S, M, out>>

\* lines 41-65, then the return to module level and the next call
Emit ==
    /\ out' = Append(out, Block(cur, Yr, Yg, Yb, r2x, x2r))
    /\ idx' = idx + 1
    /\ pc' = IF idx < Len(table) THEN "call" ELSE "done"
    /\ wp' = None /\ xyz' = None /\ S' = None /\ M' = None
    /\ Yr' = None /\ Yg' = None /\ Yb' = None /\ r2x' = None /\ x2r' = None
    /\ UNCHANGED <<table, err, WhitePoints>>

\* Faulty variant of mkRust_print: the block may be printed before lines
\* 34-39 have run.
mkRust_print_early == pc \in {"fmt", "print"} /\ Emit
mkRust_print == pc = "print" /\ Emit

Next ==
    \/ mkRust_call
    \/ calc_build
    \/ calc_solve
    \/ mkRust_fmt
    \/ mkRust_print

Spec == Init /\ [][Next]_vars

SpecGrid == InitGrid /\ [][Next]_vars

(***************************************************************************)
(* Vocabulary of the properties.                                           *)
(***************************************************************************)
Ones == <<One, One, One>>

RSum3(v) == RAdd(RAdd(v[1], v[2]), v[3])

\* x + y > 1
SumAboveOne(x, y) == LET t == RAdd(x, y) IN t[1] > t[2]

AnyYZero(e) == e.yr = Zero \/ e.yg = Zero \/ e.yb = Zero

AnySumAboveOne(e) ==
    SumAboveOne(e.xr, e.yr) \/ SumAboveOne(e.xg, e.yg) \/ SumAboveOne(e.xb, e.yb)

OutsideDomain(e) == AnyYZero(e) \/ AnySumAboveOne(e)

KnownWhitePoint(e) == e.wp \in {"D65", "D50"}

\* the determinant by cofactors of the first row
Det3(A) ==
    LET minor(a, b, c, d) == RSub(RMul(a, d), RMul(b, c))
    IN  RAdd(RSub(RMul(A[1][1], minor(A[2][2], A[2][3], A[3][2], A[3][3])),
                  RMul(A[1][2], minor(A[2][1], A[2][3], A[3][1], A[3][3]))),
             RMul(A[1][3], minor(A[2][1], A[2][2], A[3][1], A[3][2])))

Unravel(r) == <<<<r[1], r[2], r[3]>>, <<r[4], r[5], r[6]>>, <<r[7], r[8], r[9]>>>>

InCall == pc # "done"

NothingComputed ==
    /\ xyz = None /\ S = None /\ M = None
    /\ Yr = None /\ Yg = None /\ Yb = None /\ r2x = None /\ x2r = None

\* what the code prints for entry e when nothing but e and the initial
\* WhitePoints table is read
BlockOf(e) ==
    LET m == calc_xyz(e)
        s == calc_S(m, WhitePointsInit[e.wp])
        mm == multiply(m, s)
    IN  Block(e, mm[2][1], mm[2][2], mm[2][3], fmt_r2x(mm), fmt_x2r(mm))

(***************************************************************************)
(* C1. White-point preservation: whenever calc_RGB_to_XYZ returns a matrix *)
(* M (all y # 0, xyz non-singular), M * (1,1,1) is exactly the white-point *)
(* vector (k = 1), and it does return one for every such input.            *)
(***************************************************************************)
C1_WhitePointPreserved ==
    /\ M # None => MatVec(M, Ones) = WhitePoints[cur.wp]
    /\ (xyz # None /\ Det3(xyz) # Zero /\ pc # "solve") => M # None

C1_Witness ==
    /\ pc = "print"
    /\ M # None
    /\ ~OutsideDomain(cur)
    /\ MatVec(M, Ones) = WhitePoints[cur.wp]

(***************************************************************************)
(* C2 as claimed. Domain validation: a call with a chromaticity that has   *)
(* y = 0 or x + y > 1 never constructs xyz, never yields a matrix and      *)
(* never prints.                                                           *)
(***************************************************************************)
C2_DomainValidation ==
    /\ \A j \in 1..Len(out) : ~OutsideDomain(table[j])
    /\ (InCall /\ OutsideDomain(cur)) => (xyz = None /\ M = None)

(***************************************************************************)
(* C2 as the code has it. Only y = 0 is rejected: such a call ends in an   *)
(* exception (ZeroDivisionError, or KeyError when the white-point name is  *)
(* unknown, which is looked up first) before xyz is constructed and before *)
(* anything is printed for it.                                             *)
(***************************************************************************)
C2_ZeroYRejected ==
    /\ \A j \in 1..Len(out) : ~AnyYZero(table[j])
    /\ (InCall /\ AnyYZero(cur)) =>
          /\ NothingComputed
          /\ Len(out) = idx - 1
          /\ pc \in {"call", "xyz", "aborted"}
          /\ pc = "aborted" =>
                err = (IF KnownWhitePoint(cur) THEN "ZeroDivisionError" ELSE "KeyError")

C2_Witness ==
    /\ pc = "aborted"
    /\ err = "ZeroDivisionError"
    /\ AnyYZero(cur)
    /\ xyz = None

C4_NoPartialOutput == pc = "aborted" => out = <<>>

(***************************************************************************)
(* C4 as the code has it. An exception ends the run at once: nothing is    *)
(* printed for the failing entry or for a later one, and the blocks of the *)
(* entries before it have been printed already and stay in the output.     *)
(***************************************************************************)
C4_AbortKeepsEarlierBlocks ==
    /\ err # "none" <=> pc = "aborted"
    /\ pc = "aborted" =>
          /\ Len(out) = idx - 1
          /\ \A j \in 1..Len(out) : out[j] = BlockOf(table[j])

C4_Witness ==
    /\ pc = "aborted"
    /\ idx = 2
    /\ Len(out) = 1

(***************************************************************************)
(* C5 as claimed. Emitted primaries: each printed primary carries its own  *)
(* x, its own y and its own luminance coefficient, the matching entry of   *)
(* the Y row of the printed RGB -> XYZ matrix.                             *)
(***************************************************************************)
C5_EmittedPrimaries ==
    \A j \in 1..Len(out) :
        /\ out[j].red = <<table[j].xr, table[j].yr, out[j].rgb_to_xyz_matrix[4]>>
        /\ out[j].green = <<table[j].xg, table[j].yg, out[j].rgb_to_xyz_matrix[5]>>
        /\ out[j].blue = <<table[j].xb, table[j].yb, out[j].rgb_to_xyz_matrix[6]>>

(***************************************************************************)
(* C6. Round trip: in every printed block the XYZ -> RGB matrix is the     *)
(* inverse of the RGB -> XYZ matrix of that block (their product is the    *)
(* identity), and before printing both are taken from the final M.         *)
(***************************************************************************)
C6_RoundTrip ==
    /\ \A j \in 1..Len(out) :
          MatMul(Unravel(out[j].rgb_to_xyz_matrix), Unravel(out[j].xyz_to_rgb_matrix)) = Identity
    /\ pc = "print" =>
          /\ Unravel(r2x) = M
          /\ MatMul(M, Unravel(x2r)) = Identity
          /\ MatMul(Unravel(x2r), M) = Identity

\* a printed pair whose inverse is not symmetric and differs from xyz's
C6_Witness ==
    /\ Len(out) >= 1
    /\ Unravel(out[1].xyz_to_rgb_matrix) # Transpose(Unravel(out[1].xyz_to_rgb_matrix))
    /\ MatMul(Unravel(out[1].rgb_to_xyz_matrix), Unravel(out[1].xyz_to_rgb_matrix)) = Identity

(***************************************************************************)
(* C7. Unknown white point: a call whose white-point name is not a key of  *)
(* WhitePoints (D65, D50) ends in KeyError before any matrix is computed   *)
(* and before anything is printed for it.                                  *)
(***************************************************************************)
C7_UnknownWhitePoint ==
    (InCall /\ ~KnownWhitePoint(cur)) =>
        /\ pc \in {"call", "aborted"}
        /\ pc = "aborted" => err = "KeyError"
        /\ wp = None
        /\ NothingComputed
        /\ Len(out) = idx - 1

C7_Witness ==
    /\ pc = "aborted"
    /\ err = "KeyError"
    /\ ~KnownWhitePoint(cur)
    /\ ~AnyYZero(cur)

C10_LuminanceRow ==
    /\ M # None =>
          /\ S = MatVec(inv(xyz), wp)
          /\ M[2] = S
          /\ RSum3(M[2]) = One
          /\ wp[2] = One
    /\ pc = "print" => <<Yr, Yg, Yb>> = S

C10_Witness ==
    /\ pc = "print"
    /\ <<Yr, Yg, Yb>> = S
    /\ Yr # Yg /\ Yg # Yb /\ Yr # Yb
    /\ M[1] # S /\ M[3] # S

====
